---- MODULE Spec2Model ----
(***************************************************************************)
(* The `reduce` transform of src/src/transforms/reduce/mod.rs: a map of    *)
(* live groups keyed by discriminant, the per-event decision               *)
(* (starts_when / ends_when / neither), the stale sweep, the end-of-stream *)
(* flush and the driver loop that selects between the flush tick and the   *)
(* input stream.                                                           *)
(*                                                                         *)
(* Time is a discrete monotonic clock `now`, in milliseconds.  One handler *)
(* of the driver loop is one action: Instant::now() and Instant::elapsed() *)
(* read the same `now` throughout a handler.                               *)
(***************************************************************************)
EXTENDS Integers, Sequences, FiniteSets, TLC

\* Bounds of the model.
MaxEvents == 3
MaxTime == 3

\* Defaults of Reduce::new (milliseconds).
DefaultExpireAfterMs == 30000
DefaultFlushPeriodMs == 1000

VARIABLES
    config,               \* the ReduceConfig handed to build
    pc,                   \* "config" | "build_error" | "running" | "done"
    me,                   \* the Reduce built from config (None before / on error)
    reduce_merge_states,  \* Reduce::reduce_merge_states : Discriminant -> ReduceState
    input_open,           \* the upstream sender has not been dropped
    received,             \* history: the events received from input_rx, with instants
    now,                  \* the monotonic clock
    next_tick,            \* deadline of flush_stream's next tick
    out,                  \* everything yielded downstream, in order
    stale_flushed,        \* count of emit!(ReduceStaleEventFlushed)
    last                  \* history: the handler that ran last and the map before it

vars == <<config, pc, me, reduce_merge_states, input_open, received, now,
          next_tick, out, stale_flushed, last>>

\* Option and Result.
None == [kind |-> "none"]
Some(x) == [kind |-> "some", val |-> x]
Err == [kind |-> "error"]

----------------------------------------------------------------------------
\* Values (crate::event::Value), tagged by variant.

Integer(n) == [kind |-> "integer", val |-> n]
Bytes(s) == [kind |-> "bytes", val |-> s]
Boolean(b) == [kind |-> "boolean", val |-> b]
Object(f) == [kind |-> "object", val |-> f]
Timestamp(t) == [kind |-> "timestamp", val |-> t]
Array(a) == [kind |-> "array", val |-> a]

\* HashMap helpers.
EmptyMap == <<>>
MapRemove(m, k) == [x \in DOMAIN m \ {k} |-> m[x]]
MapInsert(m, k, v) == (k :> v) @@ m

----------------------------------------------------------------------------
\* Value mergers (mod merge_strategy).  A merger is [strategy, v], the
\* default merger of a timestamp [strategy, v, latest].  The strategies
\* modelled are discard, retain, sum, max, min, array, concat, concat_newline
\* and concat_raw.

\* impl From<Value> for Box<dyn ReduceValueMerger>: the default by type.
DefaultMerger(v) ==
    CASE v.kind \in {"integer", "float"} -> [strategy |-> "sum", v |-> v]
      [] v.kind = "timestamp" ->
            [strategy |-> "timestamp_window", v |-> v, latest |-> v]
      [] OTHER -> [strategy |-> "discard", v |-> v]

\* get_value_merger(v, strat): Ok(merger) or Err.
get_value_merger(v, strat) ==
    CASE strat = "discard" -> [strategy |-> "discard", v |-> v]
      [] strat = "retain" -> [strategy |-> "retain", v |-> v]
      [] strat = "sum" -> IF v.kind \in {"integer", "float"}
                          THEN [strategy |-> "sum", v |-> v]
                          ELSE Err
      [] strat \in {"max", "min"} ->
            IF v.kind \in {"integer", "float", "timestamp"}
            THEN [strategy |-> strat, v |-> v]
            ELSE Err
      [] strat = "array" -> [strategy |-> "array", v |-> Array(<<v>>)]
      [] strat = "concat" -> IF v.kind \in {"bytes", "array"}
                             THEN [strategy |-> "concat", v |-> v]
                             ELSE Err
      [] strat \in {"concat_newline", "concat_raw"} ->
            IF v.kind = "bytes" THEN [strategy |-> strat, v |-> v] ELSE Err

\* The separator a string concatenation inserts.
Separator(strat) ==
    CASE strat = "concat" -> " "
      [] strat = "concat_newline" -> "\n"
      [] strat = "concat_raw" -> ""

\* ReduceValueMerger::add: [ok, m]; on Err the merger keeps its state.
merger_add(m, v) ==
    CASE m.strategy = "discard" -> [ok |-> TRUE, m |-> m]
      [] m.strategy = "retain" -> [ok |-> TRUE, m |-> [m EXCEPT !.v = v]]
      [] m.strategy = "timestamp_window" ->
            [ok |-> TRUE, m |-> [m EXCEPT !.latest = v]]
      [] m.strategy = "sum" ->
            IF v.kind = "integer" /\ m.v.kind = "integer"
            THEN [ok |-> TRUE, m |-> [m EXCEPT !.v = Integer(m.v.val + v.val)]]
            ELSE [ok |-> FALSE, m |-> m]
      [] m.strategy = "max" ->
            IF v.kind = m.v.kind
            THEN [ok |-> TRUE, m |-> IF v.val > m.v.val THEN [m EXCEPT !.v = v] ELSE m]
            ELSE [ok |-> FALSE, m |-> m]
      [] m.strategy = "min" ->
            IF v.kind = m.v.kind
            THEN [ok |-> TRUE, m |-> IF v.val < m.v.val THEN [m EXCEPT !.v = v] ELSE m]
            ELSE [ok |-> FALSE, m |-> m]
      [] m.strategy = "array" ->
            [ok |-> TRUE, m |-> [m EXCEPT !.v = Array(Append(m.v.val, v))]]
      [] m.strategy \in {"concat", "concat_newline", "concat_raw"} ->
            IF m.v.kind = "bytes"
            THEN IF v.kind = "bytes"
                 THEN [ok |-> TRUE,
                       m |-> [m EXCEPT !.v =
                                Bytes(m.v.val \o Separator(m.strategy) \o v.val)]]
                 ELSE [ok |-> FALSE, m |-> m]
            ELSE IF v.kind = "array"
                 THEN [ok |-> TRUE, m |-> [m EXCEPT !.v = Array(m.v.val \o v.val)]]
                 ELSE [ok |-> TRUE, m |-> [m EXCEPT !.v = Array(Append(m.v.val, v))]]

\* The name of the synthetic field of a default-merged timestamp.
EndField(k) == k \o "_end"

\* ReduceValueMerger::insert_into(k, event): the fields the merger installs.
insert_into(m, k) ==
    IF m.strategy = "timestamp_window"
    THEN (k :> m.v) @@ (EndField(k) :> m.latest)
    ELSE (k :> m.v)

----------------------------------------------------------------------------
\* Events.  A LogEvent is [value, metadata]; the metadata of an input event
\* is the singleton of its identity and EventMetadata::merge is the union.

LogEvent(id, fields) == [value |-> Object(fields), metadata |-> {id}]

metadata_merge(a, b) == a \cup b

\* The fields of a top-level mapping, none for any other value.
ObjectFields(value) == IF value.kind = "object" THEN value.val ELSE EmptyMap

\* Condition::check for a check_fields "<field>.exists" = true condition.
condition_check(condition, e) == condition.field \in DOMAIN ObjectFields(e.value)

\* Discriminant::from_log_event: one optional value per group_by path.
Discriminant(e, group_by) ==
    [i \in 1..Len(group_by) |->
        IF group_by[i] \in DOMAIN ObjectFields(e.value)
        THEN ObjectFields(e.value)[group_by[i]]
        ELSE None]

----------------------------------------------------------------------------
\* ReduceState: [fields, stale_since, metadata].

\* Mutant: a value its strategy rejects is seeded with the default merger.
ReduceState_new_defaults_on_error(e, strategies, at) ==
    LET fields == ObjectFields(e.value)
    IN [fields |-> [k \in DOMAIN fields |->
                       IF k \in DOMAIN strategies
                          /\ get_value_merger(fields[k], strategies[k]) # Err
                       THEN get_value_merger(fields[k], strategies[k])
                       ELSE DefaultMerger(fields[k])],
        stale_since |-> at,
        metadata |-> e.metadata]

\* Mutant: every field is seeded with the default merger of its type.
ReduceState_new_defaults(e, strategies, at) ==
    [fields |-> [k \in DOMAIN ObjectFields(e.value) |->
                    DefaultMerger(ObjectFields(e.value)[k])],
     stale_since |-> at,
     metadata |-> e.metadata]

\* ReduceState::new(e, strategies) at instant `at`.
ReduceState_new(e, strategies, at) ==
    LET fields == ObjectFields(e.value)
        kept == {k \in DOMAIN fields :
                    k \in DOMAIN strategies =>
                        get_value_merger(fields[k], strategies[k]) # Err}
    IN [fields |-> [k \in kept |->
                       IF k \in DOMAIN strategies
                       THEN get_value_merger(fields[k], strategies[k])
                       ELSE DefaultMerger(fields[k])],
        stale_since |-> at,
        metadata |-> e.metadata]

\* Mutant: an event whose value is not a mapping empties the group's fields.
add_event_resets_without_fields(state, e, strategies) ==
    LET fields == ObjectFields(e.value)
        seeded == {k \in DOMAIN fields \ DOMAIN state.fields :
                      k \in DOMAIN strategies =>
                          get_value_merger(fields[k], strategies[k]) # Err}
    IN IF e.value.kind # "object"
       THEN [state EXCEPT
               !.metadata = metadata_merge(state.metadata, e.metadata),
               !.fields = EmptyMap]
       ELSE [state EXCEPT
               !.metadata = metadata_merge(state.metadata, e.metadata),
               !.fields = [k \in DOMAIN state.fields \cup seeded |->
                             IF k \in DOMAIN state.fields
                             THEN IF k \in DOMAIN fields
                                  THEN merger_add(state.fields[k], fields[k]).m
                                  ELSE state.fields[k]
                             ELSE IF k \in DOMAIN strategies
                                  THEN get_value_merger(fields[k], strategies[k])
                                  ELSE DefaultMerger(fields[k])]]

\* Mutant: the first value a merger rejects ends the merge of the event.
add_event_aborts_on_error(state, e, strategies) ==
    LET fields == ObjectFields(e.value)
        rejected == {k \in DOMAIN fields \cap DOMAIN state.fields :
                        ~merger_add(state.fields[k], fields[k]).ok}
        seeded == {k \in DOMAIN fields \ DOMAIN state.fields :
                      k \in DOMAIN strategies =>
                          get_value_merger(fields[k], strategies[k]) # Err}
    IN IF rejected # {}
       THEN [state EXCEPT !.metadata = metadata_merge(state.metadata, e.metadata)]
       ELSE [state EXCEPT
               !.metadata = metadata_merge(state.metadata, e.metadata),
               !.fields = [k \in DOMAIN state.fields \cup seeded |->
                             IF k \in DOMAIN state.fields
                             THEN IF k \in DOMAIN fields
                                  THEN merger_add(state.fields[k], fields[k]).m
                                  ELSE state.fields[k]
                             ELSE IF k \in DOMAIN strategies
                                  THEN get_value_merger(fields[k], strategies[k])
                                  ELSE DefaultMerger(fields[k])]]

\* Mutant: a field that has a merger is seeded again from the event's value.
add_event_reseeds(state, e, strategies) ==
    LET fields == ObjectFields(e.value)
        seeded == {k \in DOMAIN fields :
                      k \in DOMAIN strategies =>
                          get_value_merger(fields[k], strategies[k]) # Err}
    IN [state EXCEPT
          !.metadata = metadata_merge(state.metadata, e.metadata),
          !.fields = [k \in DOMAIN state.fields \cup seeded |->
                        IF k \in seeded
                        THEN IF k \in DOMAIN strategies
                             THEN get_value_merger(fields[k], strategies[k])
                             ELSE DefaultMerger(fields[k])
                        ELSE state.fields[k]]]

\* Mutant: a field that has a merger ignores the event's value.
add_event_keeps_first(state, e, strategies) ==
    LET fields == ObjectFields(e.value)
        seeded == {k \in DOMAIN fields \ DOMAIN state.fields :
                      k \in DOMAIN strategies =>
                          get_value_merger(fields[k], strategies[k]) # Err}
    IN [state EXCEPT
          !.metadata = metadata_merge(state.metadata, e.metadata),
          !.fields = [k \in DOMAIN state.fields \cup seeded |->
                        IF k \in DOMAIN state.fields
                        THEN state.fields[k]
                        ELSE IF k \in DOMAIN strategies
                             THEN get_value_merger(fields[k], strategies[k])
                             ELSE DefaultMerger(fields[k])]]

\* ReduceState::add_event(e, strategies): merges the metadata and every field
\* of e; stale_since is not assigned.
add_event(state, e, strategies) ==
    LET fields == ObjectFields(e.value)
        seeded == {k \in DOMAIN fields \ DOMAIN state.fields :
                      k \in DOMAIN strategies =>
                          get_value_merger(fields[k], strategies[k]) # Err}
    IN [state EXCEPT
          !.metadata = metadata_merge(state.metadata, e.metadata),
          !.fields = [k \in DOMAIN state.fields \cup seeded |->
                        IF k \in DOMAIN state.fields
                        THEN IF k \in DOMAIN fields
                             THEN merger_add(state.fields[k], fields[k]).m
                             ELSE state.fields[k]
                        ELSE IF k \in DOMAIN strategies
                             THEN get_value_merger(fields[k], strategies[k])
                             ELSE DefaultMerger(fields[k])]]

\* Mutant: every field is flushed with a "<k>_end" twin.
flush_windows_all(state) ==
    [value |-> Object([n \in DOMAIN state.fields
                            \cup {EndField(k) : k \in DOMAIN state.fields} |->
                    IF n \in DOMAIN state.fields
                    THEN state.fields[n].v
                    ELSE state.fields[CHOOSE k \in DOMAIN state.fields :
                                         EndField(k) = n].v]),
     metadata |-> state.metadata]

\* ReduceState::flush: the event carrying the metadata and what every merger
\* installs.  (No input of the model names a field "<k>_end" beside a
\* timestamp field <k>, so the order of the drain does not show.)
flush(state) ==
    LET installs(k) == insert_into(state.fields[k], k)
        names == UNION {DOMAIN installs(k) : k \in DOMAIN state.fields}
    IN [value |-> Object([n \in names |->
                    installs(CHOOSE k \in DOMAIN state.fields :
                                n \in DOMAIN installs(k))[n]]),
        metadata |-> state.metadata]

----------------------------------------------------------------------------
\* Reduce.

\* Conditions of the configurations (check_fields "<field>.exists" = true).
EndsCondition == [kind |-> "check_fields", field |-> "test_end"]
StartsCondition == [kind |-> "check_fields", field |-> "begin"]

unwrap_or(opt, default) == IF opt.kind = "none" THEN default ELSE opt.val

\* Mutant: the build rejects a configuration with either condition set.
Reduce_new_rejects_either(cfg) ==
    IF cfg.ends_when.kind # "none" \/ cfg.starts_when.kind # "none"
    THEN Err
    ELSE [expire_after |-> unwrap_or(cfg.expire_after_ms, DefaultExpireAfterMs),
          flush_period |-> unwrap_or(cfg.flush_period_ms, DefaultFlushPeriodMs),
          group_by |-> cfg.group_by,
          merge_strategies |-> cfg.merge_strategies,
          ends_when |-> cfg.ends_when,
          starts_when |-> cfg.starts_when]

\* Reduce::new: Err when both conditions are set, else the reducer.
Reduce_new(cfg) ==
    IF cfg.ends_when.kind # "none" /\ cfg.starts_when.kind # "none"
    THEN Err
    ELSE [expire_after |-> unwrap_or(cfg.expire_after_ms, DefaultExpireAfterMs),
          flush_period |-> unwrap_or(cfg.flush_period_ms, DefaultFlushPeriodMs),
          group_by |-> cfg.group_by,
          merge_strategies |-> cfg.merge_strategies,
          ends_when |-> cfg.ends_when,
          starts_when |-> cfg.starts_when]

\* One entry of the output: the event and which flush pushed it.
Emit(state, by) == [event |-> flush(state), by |-> by]

\* Every order in which the keys of S can be visited (HashMap iteration).
RECURSIVE Orders(_)
Orders(S) ==
    IF S = {} THEN {<<>>}
    ELSE UNION {{<<k>> \o rest : rest \in Orders(S \ {k})} : k \in S}

\* Mutant: a group is stale only after more than expire_after.
stale_strict(t, at, expire_after) == at - t.stale_since > expire_after

\* t.stale_since.elapsed() >= self.expire_after
stale(t, at, expire_after) == at - t.stale_since >= expire_after

\* Mutant: the sweep flushes the stale groups but leaves them in the map.
flush_into_keeps_groups(states, at, expire_after) ==
    LET flush_discriminants ==
            {k \in DOMAIN states : stale(states[k], at, expire_after)}
    IN {[states |-> states,
         output |-> [i \in 1..Len(order) |-> Emit(states[order[i]], "stale")],
         hooks |-> Len(order)] :
           order \in Orders(flush_discriminants)}

\* Reduce::flush_into: the possible [states, output, hooks] of one sweep.
flush_into(states, at, expire_after) ==
    LET flush_discriminants ==
            {k \in DOMAIN states : stale(states[k], at, expire_after)}
    IN {[states |-> [k \in DOMAIN states \ flush_discriminants |-> states[k]],
         output |-> [i \in 1..Len(order) |-> Emit(states[order[i]], "stale")],
         hooks |-> Len(order)] :
           order \in Orders(flush_discriminants)}

\* Mutant: the end-of-stream flush records the stale hook for each group.
flush_all_into_with_hook(states) ==
    {[states |-> EmptyMap,
      output |-> [i \in 1..Len(order) |-> Emit(states[order[i]], "end_of_stream")],
      hooks |-> Len(order)] :
        order \in Orders(DOMAIN states)}

\* Reduce::flush_all_into: drains the map, no hook.
flush_all_into(states) ==
    {[states |-> EmptyMap,
      output |-> [i \in 1..Len(order) |-> Emit(states[order[i]], "end_of_stream")],
      hooks |-> 0] :
        order \in Orders(DOMAIN states)}

\* Mutant: the event goes to whatever entry the map holds, whatever its key.
push_or_new_any_entry(states, event, discriminant, strategies, at) ==
    IF DOMAIN states = {}
    THEN MapInsert(states, discriminant, ReduceState_new(event, strategies, at))
    ELSE LET k == CHOOSE k \in DOMAIN states : TRUE
         IN [states EXCEPT ![k] = add_event(@, event, strategies)]

\* Mutant: the event's new state overwrites the entry of its discriminant.
push_or_new_overwrites(states, event, discriminant, strategies, at) ==
    MapInsert(MapRemove(states, discriminant), discriminant,
              ReduceState_new(event, strategies, at))

\* Reduce::push_or_new_reduce_state
push_or_new_reduce_state(states, event, discriminant, strategies, at) ==
    IF discriminant \notin DOMAIN states
    THEN MapInsert(states, discriminant, ReduceState_new(event, strategies, at))
    ELSE [states EXCEPT ![discriminant] = add_event(@, event, strategies)]

\* Mutant: the previous group is flushed but not removed before the push.
starts_branch_keeps_group(states, event, discriminant, strategies, at) ==
    [states |-> push_or_new_reduce_state(states, event, discriminant, strategies, at),
     output |-> IF discriminant \in DOMAIN states
                THEN <<Emit(states[discriminant], "starts_when")>>
                ELSE <<>>]

\* transform_one, `if starts_here` branch.
starts_branch(states, event, discriminant, strategies, at) ==
    [states |-> push_or_new_reduce_state(MapRemove(states, discriminant), event,
                                         discriminant, strategies, at),
     output |-> IF discriminant \in DOMAIN states
                THEN <<Emit(states[discriminant], "starts_when")>>
                ELSE <<>>]

\* Mutant: the live group is flushed as it was, without the ending event.
ends_branch_without_event(states, event, discriminant, strategies, at) ==
    [states |-> MapRemove(states, discriminant),
     output |-> <<Emit(IF discriminant \in DOMAIN states
                       THEN states[discriminant]
                       ELSE ReduceState_new(event, strategies, at),
                       "ends_when")>>]

\* Mutant: the transient group of a lone ending event is left in the map.
ends_branch_keeps_entry(states, event, discriminant, strategies, at) ==
    [states |-> IF discriminant \in DOMAIN states
                THEN MapRemove(states, discriminant)
                ELSE MapInsert(states, discriminant,
                               ReduceState_new(event, strategies, at)),
     output |-> <<Emit(IF discriminant \in DOMAIN states
                       THEN add_event(states[discriminant], event, strategies)
                       ELSE ReduceState_new(event, strategies, at),
                       "ends_when")>>]

\* Mutant: the ending event is flushed on its own, whatever the map holds.
ends_branch_alone(states, event, discriminant, strategies, at) ==
    [states |-> states,
     output |-> <<Emit(ReduceState_new(event, strategies, at), "ends_when")>>]

\* transform_one, `else if ends_here` branch.
ends_branch(states, event, discriminant, strategies, at) ==
    [states |-> MapRemove(states, discriminant),
     output |-> <<Emit(IF discriminant \in DOMAIN states
                       THEN add_event(states[discriminant], event, strategies)
                       ELSE ReduceState_new(event, strategies, at),
                       "ends_when")>>]

\* transform_one, `else` branch.
else_branch(states, event, discriminant, strategies, at) ==
    [states |-> push_or_new_reduce_state(states, event, discriminant, strategies, at),
     output |-> <<>>]

\* Mutant: starts_when is never consulted.
starts_here_never(self, event) == FALSE

starts_here(self, event) ==
    IF self.starts_when.kind # "none" THEN condition_check(self.starts_when, event) ELSE FALSE

ends_here(self, event) ==
    IF self.ends_when.kind # "none" THEN condition_check(self.ends_when, event) ELSE FALSE

\* Mutant: the stale sweep runs only after the `else` branch.
transform_one_sweeps_else_only(self, states, event, at) ==
    LET discriminant == Discriminant(event, self.group_by)
    IN IF starts_here(self, event)
       THEN {[states |-> b.states, output |-> b.output, hooks |-> 0] :
               b \in {starts_branch(states, event, discriminant,
                                    self.merge_strategies, at)}}
       ELSE IF ends_here(self, event)
       THEN {[states |-> b.states, output |-> b.output, hooks |-> 0] :
               b \in {ends_branch(states, event, discriminant,
                                  self.merge_strategies, at)}}
       ELSE {[states |-> f.states, output |-> f.output, hooks |-> f.hooks] :
               f \in flush_into(else_branch(states, event, discriminant,
                                            self.merge_strategies, at).states,
                                at, self.expire_after)}

\* Mutant: the groups of the stale sweep are output before the branch's event.
transform_one_sweep_first(self, states, event, at) ==
    LET discriminant == Discriminant(event, self.group_by)
        branch == IF starts_here(self, event)
                  THEN starts_branch(states, event, discriminant,
                                     self.merge_strategies, at)
                  ELSE IF ends_here(self, event)
                  THEN ends_branch(states, event, discriminant,
                                   self.merge_strategies, at)
                  ELSE else_branch(states, event, discriminant,
                                   self.merge_strategies, at)
    IN {[states |-> f.states,
         output |-> f.output \o branch.output,
         hooks |-> f.hooks] :
           f \in flush_into(branch.states, at, self.expire_after)}

\* Mutant: the discriminant is taken from request_id, whatever group_by says.
transform_one_by_request_id(self, states, event, at) ==
    LET discriminant == Discriminant(event, <<"request_id">>)
        branch == IF starts_here(self, event)
                  THEN starts_branch(states, event, discriminant,
                                     self.merge_strategies, at)
                  ELSE IF ends_here(self, event)
                  THEN ends_branch(states, event, discriminant,
                                   self.merge_strategies, at)
                  ELSE else_branch(states, event, discriminant,
                                   self.merge_strategies, at)
    IN {[states |-> f.states,
         output |-> branch.output \o f.output,
         hooks |-> f.hooks] :
           f \in flush_into(branch.states, at, self.expire_after)}

\* Reduce::transform_one: the branch, then the stale sweep.
transform_one(self, states, event, at) ==
    LET discriminant == Discriminant(event, self.group_by)
        branch == IF starts_here(self, event)
                  THEN starts_branch(states, event, discriminant,
                                     self.merge_strategies, at)
                  ELSE IF ends_here(self, event)
                  THEN ends_branch(states, event, discriminant,
                                   self.merge_strategies, at)
                  ELSE else_branch(states, event, discriminant,
                                   self.merge_strategies, at)
    IN {[states |-> f.states,
         output |-> branch.output \o f.output,
         hooks |-> f.hooks] :
           f \in flush_into(branch.states, at, self.expire_after)}

----------------------------------------------------------------------------
\* The configurations and the input events the model draws from.

ExpireAfterChoices == {Some(0), Some(1), Some(2)}
FlushPeriodChoices == {None, Some(1), Some(2)}

Configs ==
    [expire_after_ms : ExpireAfterChoices,
     flush_period_ms : FlushPeriodChoices,
     group_by : {<<"request_id">>},
     merge_strategies : {EmptyMap},
     ends_when : {None, EndsCondition},
     starts_when : {None, StartsCondition}]

Marker(m) ==
    CASE m = "test_end" -> [test_end |-> Bytes("yep")]
      [] m = "begin" -> [begin |-> Boolean(TRUE)]
      [] OTHER -> EmptyMap

\* The events sent to a reducer: with or without the field its condition
\* looks for.
Markers(self) ==
    {"none"} \cup (IF self.ends_when.kind # "none" THEN {"test_end"} ELSE {})
             \cup (IF self.starts_when.kind # "none" THEN {"begin"} ELSE {})

\* Request ids are numbered in the order they first appear: the first event
\* carries request_id "1".
RequestIds(n) == IF n = 0 THEN {"1"} ELSE {"1", "2"}

Bodies(self, n) ==
    {[request_id |-> Bytes(rid), counter |-> Integer(1)] @@ Marker(m) :
        rid \in RequestIds(n), m \in Markers(self)}

----------------------------------------------------------------------------
\* The driver: TransformConfig::build, then the loop of Reduce::transform.

Step(op) == [op |-> op, pre |-> reduce_merge_states, n_out |-> Len(out)]

Init ==
    /\ config \in Configs
    /\ pc = "config"
    /\ me = None
    /\ reduce_merge_states = EmptyMap
    /\ input_open = TRUE
    /\ received = <<>>
    /\ now = 0
    /\ next_tick = 0
    /\ out = <<>>
    /\ stale_flushed = 0
    /\ last = [op |-> "init", pre |-> EmptyMap, n_out |-> 0]

\* ReduceConfig::build and the start of transform: the interval's first tick
\* is due at once.
Build ==
    /\ pc = "config"
    /\ LET r == Reduce_new(config)
       IN IF r = Err
          THEN /\ pc' = "build_error"
               /\ UNCHANGED <<me, reduce_merge_states, next_tick>>
          ELSE /\ pc' = "running"
               /\ me' = r
               /\ reduce_merge_states' = EmptyMap
               /\ next_tick' = now
    /\ last' = Step("build")
    /\ UNCHANGED <<config, input_open, received, now, out, stale_flushed>>

\* One iteration's output is yielded downstream before the next begins.
Yield(r) ==
    /\ reduce_merge_states' = r.states
    /\ out' = out \o r.output
    /\ stale_flushed' = stale_flushed + r.hooks

\* Mutant: the tick branch flushes every group, stale or not.
Tick_flushes_all ==
    /\ pc = "running"
    /\ now >= next_tick
    /\ \E r \in flush_all_into(reduce_merge_states) : Yield(r)
    /\ next_tick' = next_tick + me.flush_period
    /\ last' = Step("tick")
    /\ UNCHANGED <<config, pc, me, input_open, received, now>>

\* Mutant: the tick branch does not sweep.
Tick_without_sweep ==
    /\ pc = "running"
    /\ now >= next_tick
    /\ next_tick' = next_tick + me.flush_period
    /\ last' = Step("tick")
    /\ UNCHANGED <<config, pc, me, reduce_merge_states, input_open, received, now,
                   out, stale_flushed>>

\* select!: flush_stream.tick()
Tick ==
    /\ pc = "running"
    /\ now >= next_tick
    /\ \E r \in flush_into(reduce_merge_states, now, me.expire_after) : Yield(r)
    /\ next_tick' = next_tick + me.flush_period
    /\ last' = Step("tick")
    /\ UNCHANGED <<config, pc, me, input_open, received, now>>

\* select!: input_rx.next() = Some(event)
RecvEvent ==
    /\ pc = "running"
    /\ input_open
    /\ Len(received) < MaxEvents
    /\ \E body \in Bodies(me, Len(received)) :
         LET event == LogEvent(Len(received) + 1, body)
         IN /\ received' = Append(received, [event |-> event, at |-> now])
            /\ \E r \in transform_one(me, reduce_merge_states, event, now) : Yield(r)
    /\ last' = Step("event")
    /\ UNCHANGED <<config, pc, me, input_open, now, next_tick>>

\* Mutant: at end-of-stream only the stale sweep runs before the loop exits.
RecvNone_sweeps_only ==
    /\ pc = "running"
    /\ ~input_open
    /\ \E r \in flush_into(reduce_merge_states, now, me.expire_after) : Yield(r)
    /\ pc' = "done"
    /\ last' = Step("end_of_stream")
    /\ UNCHANGED <<config, me, input_open, received, now, next_tick>>

\* select!: input_rx.next() = None
RecvNone ==
    /\ pc = "running"
    /\ ~input_open
    /\ \E r \in flush_all_into(reduce_merge_states) : Yield(r)
    /\ pc' = "done"
    /\ last' = Step("end_of_stream")
    /\ UNCHANGED <<config, me, input_open, received, now, next_tick>>

\* The upstream sender is dropped.
CloseInput ==
    /\ pc = "running"
    /\ input_open
    /\ input_open' = FALSE
    /\ UNCHANGED <<config, pc, me, reduce_merge_states, received, now, next_tick,
                   out, stale_flushed, last>>

\* The clock advances while the loop waits in select!.  A handler takes no
\* time and a due tick is serviced before the clock moves on (the interval
\* fires every flush_period).
AdvanceTime ==
    /\ pc = "running"
    /\ now < MaxTime
    /\ now < next_tick
    /\ now' = now + 1
    /\ last' = Step("time")
    /\ UNCHANGED <<config, pc, me, reduce_merge_states, input_open, received,
                   next_tick, out, stale_flushed>>

Next ==
    \/ Build
    \/ Tick
    \/ RecvEvent
    \/ RecvNone
    \/ CloseInput
    \/ AdvanceTime

Spec == Init /\ [][Next]_vars

\* The scheduling of select!: once the input has ended, the end-of-stream
\* branch is eventually taken.  Checked for the configurations with
\* flush_period_ms = 2 and expire_after_ms = 2.
FairInit ==
    /\ Init
    /\ config.flush_period_ms = Some(2)
    /\ config.expire_after_ms = Some(2)

FairSpec == FairInit /\ [][Next]_vars /\ WF_vars(RecvNone)

----------------------------------------------------------------------------
\* Grouping: configurations with and without group_by, and events with and
\* without the group_by field (test missing_group_by).

GroupConfigs ==
    [expire_after_ms : {Some(2)},
     flush_period_ms : {Some(2)},
     group_by : {<<>>, <<"request_id">>},
     merge_strategies : {EmptyMap},
     ends_when : {None, EndsCondition},
     starts_when : {None}]

\* With or without request_id.
OptionalRequestId(rid) ==
    IF rid = "missing" THEN EmptyMap ELSE [request_id |-> Bytes(rid)]

GroupBodies(self, n) ==
    {[counter |-> Integer(1)] @@ OptionalRequestId(rid) @@ Marker(m) :
        rid \in {"missing"} \cup RequestIds(n), m \in Markers(self)}

GroupInit ==
    /\ config \in GroupConfigs
    /\ pc = "config"
    /\ me = None
    /\ reduce_merge_states = EmptyMap
    /\ input_open = TRUE
    /\ received = <<>>
    /\ now = 0
    /\ next_tick = 0
    /\ out = <<>>
    /\ stale_flushed = 0
    /\ last = [op |-> "init", pre |-> EmptyMap, n_out |-> 0]

\* select!: input_rx.next() = Some(event)
RecvGroupEvent ==
    /\ pc = "running"
    /\ input_open
    /\ Len(received) < MaxEvents
    /\ \E body \in GroupBodies(me, Len(received)) :
         LET event == LogEvent(Len(received) + 1, body)
         IN /\ received' = Append(received, [event |-> event, at |-> now])
            /\ \E r \in transform_one(me, reduce_merge_states, event, now) : Yield(r)
    /\ last' = Step("event")
    /\ UNCHANGED <<config, pc, me, input_open, now, next_tick>>

GroupNext ==
    \/ Build
    \/ Tick
    \/ RecvGroupEvent
    \/ RecvNone
    \/ CloseInput
    \/ AdvanceTime

GroupSpec == GroupInit /\ [][GroupNext]_vars

----------------------------------------------------------------------------
\* Merging: configurations without merge_strategies and with those of the
\* tests reduce_merge_strategies and arrays, and events whose fields change
\* type from one event to the next.

TestStrategies ==
    [foo |-> "concat", bar |-> "array", baz |-> "max", counter |-> "sum",
     ts |-> "retain"]

MergeConfigs ==
    [expire_after_ms : {None},
     flush_period_ms : {None},
     group_by : {<<"request_id">>},
     merge_strategies : {EmptyMap, TestStrategies},
     ends_when : {EndsCondition},
     starts_when : {None}]

MergeFields ==
    {[foo |-> Bytes("first foo"), bar |-> Bytes("first bar"), baz |-> Integer(2),
      counter |-> Integer(1), message |-> Bytes("m1"), ts |-> Timestamp(1)],
     [foo |-> Bytes("second foo"), bar |-> Integer(2), baz |-> Bytes("not number"),
      counter |-> Integer(2), message |-> Bytes("m2"), ts |-> Timestamp(2)],
     [foo |-> Integer(10), bar |-> Array(<<Integer(1), Integer(3)>>),
      baz |-> Integer(3), counter |-> Integer(1)],
     [counter |-> Integer(2)]}

MergeBodies(self) ==
    {[request_id |-> Bytes("1")] @@ f @@ Marker(m) :
        f \in MergeFields, m \in Markers(self)}

MergeInit ==
    /\ config \in MergeConfigs
    /\ pc = "config"
    /\ me = None
    /\ reduce_merge_states = EmptyMap
    /\ input_open = TRUE
    /\ received = <<>>
    /\ now = 0
    /\ next_tick = 0
    /\ out = <<>>
    /\ stale_flushed = 0
    /\ last = [op |-> "init", pre |-> EmptyMap, n_out |-> 0]

\* select!: input_rx.next() = Some(event)
RecvMergeEvent ==
    /\ pc = "running"
    /\ input_open
    /\ Len(received) < MaxEvents
    /\ \E body \in MergeBodies(me) :
         LET event == LogEvent(Len(received) + 1, body)
         IN /\ received' = Append(received, [event |-> event, at |-> now])
            /\ \E r \in transform_one(me, reduce_merge_states, event, now) : Yield(r)
    /\ last' = Step("event")
    /\ UNCHANGED <<config, pc, me, input_open, now, next_tick>>

\* The events of one group arrive within the same instant (as in the tests).
MergeNext ==
    \/ Build
    \/ Tick
    \/ RecvMergeEvent
    \/ RecvNone
    \/ CloseInput

MergeSpec == MergeInit /\ [][MergeNext]_vars

----------------------------------------------------------------------------
\* Events without fields: an empty mapping, or a top-level value that is not
\* a mapping, among events with fields.

BareConfigs ==
    [expire_after_ms : {Some(2)},
     flush_period_ms : {Some(2)},
     group_by : {<<>>, <<"request_id">>},
     merge_strategies : {EmptyMap},
     ends_when : {EndsCondition},
     starts_when : {None}]

BareValues(self) ==
    {Bytes("raw"), Object(EmptyMap),
     Object([request_id |-> Bytes("1"), counter |-> Integer(1)])}
        \cup {Object([counter |-> Integer(1)] @@ Marker(m)) : m \in Markers(self)}

BareInit ==
    /\ config \in BareConfigs
    /\ pc = "config"
    /\ me = None
    /\ reduce_merge_states = EmptyMap
    /\ input_open = TRUE
    /\ received = <<>>
    /\ now = 0
    /\ next_tick = 0
    /\ out = <<>>
    /\ stale_flushed = 0
    /\ last = [op |-> "init", pre |-> EmptyMap, n_out |-> 0]

\* select!: input_rx.next() = Some(event)
RecvBareEvent ==
    /\ pc = "running"
    /\ input_open
    /\ Len(received) < MaxEvents
    /\ \E value \in BareValues(me) :
         LET event == [value |-> value, metadata |-> {Len(received) + 1}]
         IN /\ received' = Append(received, [event |-> event, at |-> now])
            /\ \E r \in transform_one(me, reduce_merge_states, event, now) : Yield(r)
    /\ last' = Step("event")
    /\ UNCHANGED <<config, pc, me, input_open, now, next_tick>>

BareNext ==
    \/ Build
    \/ Tick
    \/ RecvBareEvent
    \/ RecvNone
    \/ CloseInput
    \/ AdvanceTime

BareSpec == BareInit /\ [][BareNext]_vars

----------------------------------------------------------------------------
\* Groups opened by starts_when: one group (no group_by), events with and
\* without the field starts_when looks for.

StartsConfigs ==
    [expire_after_ms : {Some(2)},
     flush_period_ms : {Some(2)},
     group_by : {<<>>},
     merge_strategies : {EmptyMap},
     ends_when : {None},
     starts_when : {StartsCondition}]

StartsBodies ==
    {[x |-> Integer(1)] @@ Marker("begin"),
     [x |-> Integer(2)],
     [x |-> Integer(10)] @@ Marker("begin"),
     [x |-> Integer(1)]}

StartsInit ==
    /\ config \in StartsConfigs
    /\ pc = "config"
    /\ me = None
    /\ reduce_merge_states = EmptyMap
    /\ input_open = TRUE
    /\ received = <<>>
    /\ now = 0
    /\ next_tick = 0
    /\ out = <<>>
    /\ stale_flushed = 0
    /\ last = [op |-> "init", pre |-> EmptyMap, n_out |-> 0]

\* select!: input_rx.next() = Some(event)
RecvStartsEvent ==
    /\ pc = "running"
    /\ input_open
    /\ Len(received) < MaxEvents
    /\ \E body \in StartsBodies :
         LET event == LogEvent(Len(received) + 1, body)
         IN /\ received' = Append(received, [event |-> event, at |-> now])
            /\ \E r \in transform_one(me, reduce_merge_states, event, now) : Yield(r)
    /\ last' = Step("event")
    /\ UNCHANGED <<config, pc, me, input_open, now, next_tick>>

StartsNext ==
    \/ Build
    \/ Tick
    \/ RecvStartsEvent
    \/ RecvNone
    \/ CloseInput
    \/ AdvanceTime

StartsSpec == StartsInit /\ [][StartsNext]_vars

----------------------------------------------------------------------------
\* Vocabulary of the properties.

\* What the last handler yielded.
NewOut == SubSeq(out, last.n_out + 1, Len(out))

\* The event the last RecvEvent received, and its discriminant.
LastEvent == received[Len(received)].event
LastId == Len(received)
LastD == Discriminant(LastEvent, me.group_by)

FieldsOf(e) == ObjectFields(e.value)

\* The groups of the map `states` that a sweep at instant `at` finds expired.
Expired(states, at) ==
    {d \in DOMAIN states : at - states[d].stale_since >= me.expire_after}

SetMax(S) == CHOOSE x \in S : \A y \in S : y <= x

\* The instant of the most recent event that contributed to a group.
LastContribution(state) == SetMax({received[i].at : i \in state.metadata})

\* The entries of NewOut that carry something of the events `ids`.
Carrying(ids) == {i \in 1..Len(NewOut) : NewOut[i].event.metadata \cap ids # {}}

EndsHere == last.op = "event" /\ ends_here(me, LastEvent) /\ ~starts_here(me, LastEvent)
StartsHere == last.op = "event" /\ starts_here(me, LastEvent)

----------------------------------------------------------------------------
\* C1: when ends_when matches an event whose discriminant d has a live group,
\* the event is appended to that group, exactly one emitted event carries the
\* group (the earlier contributions together with the ending event's
\* metadata, fields and counter), and no group is live at d afterwards.
C1_EndsFlushesLiveGroup ==
    (EndsHere /\ LastD \in DOMAIN last.pre) =>
        LET g == last.pre[LastD]
            hits == Carrying(g.metadata \cup {LastId})
        IN /\ Cardinality(hits) = 1
           /\ \A i \in hits :
                /\ NewOut[i].by = "ends_when"
                /\ NewOut[i].event.metadata = g.metadata \cup {LastId}
                /\ DOMAIN FieldsOf(LastEvent) \subseteq DOMAIN FieldsOf(NewOut[i].event)
                /\ FieldsOf(NewOut[i].event).counter =
                     Integer(g.fields.counter.v.val + FieldsOf(LastEvent).counter.val)
           /\ LastD \notin DOMAIN reduce_merge_states

\* An ending event has just closed a group of two earlier events.
C1_Witness ==
    /\ EndsHere
    /\ LastD \in DOMAIN last.pre
    /\ Cardinality(last.pre[LastD].metadata) = 2
    /\ Len(NewOut) = 1

\* C2 as stated: when ends_when matches an event whose discriminant has no
\* live group, exactly one event, built from that input alone, is emitted and
\* the live groups are the same after the call as before it.
C2_AsStated ==
    (EndsHere /\ LastD \notin DOMAIN last.pre) =>
        /\ Len(NewOut) = 1
        /\ NewOut[1].event.metadata = {LastId}
        /\ reduce_merge_states = last.pre

\* C2 amended: the ends_when branch emits exactly one event, built from that
\* input alone, and creates no entry for the discriminant; the trailing stale
\* sweep of the same call then emits and removes the groups that have
\* expired, so the live groups afterwards are those before, unchanged, minus
\* the expired ones.
C2_EndsWithoutGroupEmitsSingleton ==
    (EndsHere /\ LastD \notin DOMAIN last.pre) =>
        LET expired == Expired(last.pre, now)
        IN /\ Len(NewOut) = 1 + Cardinality(expired)
           /\ NewOut[1].by = "ends_when"
           /\ NewOut[1].event.metadata = {LastId}
           /\ \A k \in DOMAIN FieldsOf(NewOut[1].event) :
                /\ k \in DOMAIN FieldsOf(LastEvent)
                /\ FieldsOf(NewOut[1].event)[k] = FieldsOf(LastEvent)[k]
           /\ Carrying({LastId}) = {1}
           /\ \A i \in 2..Len(NewOut) : NewOut[i].by = "stale"
           /\ LastD \notin DOMAIN reduce_merge_states
           /\ reduce_merge_states =
                [d \in DOMAIN last.pre \ expired |-> last.pre[d]]

\* A lone ending event has been emitted while another group stays live.
C2_Witness ==
    /\ EndsHere
    /\ LastD \notin DOMAIN last.pre
    /\ DOMAIN reduce_merge_states # {}
    /\ Len(NewOut) = 1

\* C3 as stated: when starts_when matches an event with discriminant d, a
\* live group at d is emitted without the current event, nothing is emitted
\* by the branch when none was live, and in every case a group seeded from
\* the current event alone is live at d afterwards.
C3_AsStated ==
    StartsHere =>
        /\ LastD \in DOMAIN last.pre =>
             /\ NewOut[1].by = "starts_when"
             /\ NewOut[1].event.metadata = last.pre[LastD].metadata
        /\ LastD \notin DOMAIN last.pre =>
             \A i \in 1..Len(NewOut) : NewOut[i].by # "starts_when"
        /\ LastD \in DOMAIN reduce_merge_states
        /\ reduce_merge_states[LastD].metadata = {LastId}

\* C3 amended: a live group at d is emitted without the current event,
\* nothing is emitted by the branch when none was live, and a group seeded
\* from the current event alone is created at d; it is live at d afterwards
\* unless the trailing stale sweep of the same call finds it expired (always
\* so when expire_after is 0), in which case the sweep emits it, holding that
\* event alone.
C3_StartsFlushesPreviousGroup ==
    StartsHere =>
        /\ LastD \in DOMAIN last.pre =>
             /\ NewOut[1].by = "starts_when"
             /\ NewOut[1].event.metadata = last.pre[LastD].metadata
             /\ LastId \notin NewOut[1].event.metadata
             /\ FieldsOf(NewOut[1].event).counter = last.pre[LastD].fields.counter.v
        /\ LastD \notin DOMAIN last.pre =>
             \A i \in 1..Len(NewOut) : NewOut[i].by # "starts_when"
        /\ IF me.expire_after > 0
           THEN /\ LastD \in DOMAIN reduce_merge_states
                /\ reduce_merge_states[LastD].metadata = {LastId}
                /\ reduce_merge_states[LastD].stale_since = now
                /\ reduce_merge_states[LastD].fields.counter.v =
                     FieldsOf(LastEvent).counter
                /\ DOMAIN reduce_merge_states[LastD].fields =
                     DOMAIN FieldsOf(LastEvent)
           ELSE /\ LastD \notin DOMAIN reduce_merge_states
                /\ \E i \in 1..Len(NewOut) :
                     /\ NewOut[i].by = "stale"
                     /\ NewOut[i].event.metadata = {LastId}
                     /\ Carrying({LastId}) = {i}

\* A starting event has flushed a group of two earlier events and its own
\* group is live.
C3_Witness ==
    /\ StartsHere
    /\ LastD \in DOMAIN last.pre
    /\ Cardinality(last.pre[LastD].metadata) = 2
    /\ LastD \in DOMAIN reduce_merge_states

\* C4: appending an event to a live group sets stale_since to the instant of
\* the append, so stale_since is the instant of the group's most recent
\* contributing event, and a sweep flushes a group only when at least
\* expire_after has elapsed since that event.
C4_StaleSinceIsLastContribution ==
    /\ \A d \in DOMAIN reduce_merge_states :
         reduce_merge_states[d].stale_since = LastContribution(reduce_merge_states[d])
    /\ last.op \in {"tick", "event"} =>
         \A i \in 1..Len(NewOut) :
            NewOut[i].by = "stale" =>
                now - SetMax({received[j].at : j \in NewOut[i].event.metadata})
                    >= me.expire_after

\* C5: with ticks firing every flush_period, a group whose last contribution
\* was at instant t does not stay live beyond t + expire_after + flush_period.
C5_FlushedWithinExpirePlusPeriod ==
    pc = "running" =>
        \A d \in DOMAIN reduce_merge_states :
            now <= LastContribution(reduce_merge_states[d])
                     + me.expire_after + me.flush_period

\* A tick has flushed a group that expired one instant earlier and had to
\* wait for the tick.
C5_Witness ==
    /\ last.op = "tick"
    /\ me.expire_after = 1
    /\ me.flush_period = 2
    /\ Len(NewOut) = 1
    /\ now = SetMax({received[j].at : j \in NewOut[1].event.metadata}) + 2

\* C6: a stale sweep emits and removes exactly the live groups with
\* now - stale_since >= expire_after, one emitted event per such group, and
\* leaves every other live group in the map unchanged; after the sweep that
\* ends transform_one no live group is expired.
C6_SweepFlushesExactlyExpired ==
    /\ last.op = "tick" =>
         LET expired == Expired(last.pre, now)
         IN /\ reduce_merge_states =
                 [d \in DOMAIN last.pre \ expired |-> last.pre[d]]
            /\ Len(NewOut) = Cardinality(expired)
            /\ \A d \in expired :
                 \E i \in 1..Len(NewOut) :
                    NewOut[i] = [event |-> flush(last.pre[d]), by |-> "stale"]
    /\ last.op = "event" => Expired(reduce_merge_states, now) = {}

\* A tick has flushed one expired group and kept a younger one.
C6_Witness ==
    /\ last.op = "tick"
    /\ Len(NewOut) = 1
    /\ DOMAIN reduce_merge_states # {}

\* C7: the StaleEventFlushed counter equals the number of groups emitted by
\* stale sweeps; emissions of ends_when, starts_when and the end-of-stream
\* flush never increment it.
C7_HookCountsStaleFlushes ==
    stale_flushed = Cardinality({i \in 1..Len(out) : out[i].by = "stale"})

\* A finished run with one stale flush, one ends_when emission and one
\* end-of-stream emission.
C7_Witness ==
    /\ pc = "done"
    /\ stale_flushed = 1
    /\ \E i \in 1..Len(out) : out[i].by = "ends_when"
    /\ \E i \in 1..Len(out) : out[i].by = "end_of_stream"

\* C8: when the upstream ends, every group still live is emitted exactly once
\* whatever its age and the map is empty afterwards; the loop has then
\* terminated and nothing more is emitted; and once the input has ended the
\* end-of-stream branch is eventually taken.
C8_EndOfStreamFlushesAll ==
    /\ [](last.op = "end_of_stream" =>
            /\ pc = "done"
            /\ reduce_merge_states = EmptyMap
            /\ Len(NewOut) = Cardinality(DOMAIN last.pre)
            /\ \A d \in DOMAIN last.pre :
                 \E i \in 1..Len(NewOut) :
                    NewOut[i] = [event |-> flush(last.pre[d]), by |-> "end_of_stream"])
    /\ [][pc = "done" => pc' = "done" /\ out' = out]_vars
    /\ (~input_open /\ pc = "running") ~> (pc = "done")

\* The end-of-stream flush has emitted two groups, one of them not expired.
C8_Witness ==
    /\ pc = "done"
    /\ last.op = "end_of_stream"
    /\ Cardinality(DOMAIN last.pre) = 2
    /\ Len(NewOut) = 2
    /\ \E d \in DOMAIN last.pre : now - last.pre[d].stale_since < me.expire_after

\* C9: building from a configuration with both ends_when and starts_when set
\* returns an error and constructs no reducer; with at most one of them set
\* the build succeeds, with an empty group map.
C9_BuildRejectsBothConditions ==
    pc # "config" =>
        IF config.ends_when.kind # "none" /\ config.starts_when.kind # "none"
        THEN /\ pc = "build_error"
             /\ me = None
             /\ out = <<>>
        ELSE /\ pc # "build_error"
             /\ me # None
             /\ me.ends_when = config.ends_when
             /\ me.starts_when = config.starts_when
             /\ last.op = "build" => reduce_merge_states = EmptyMap

\* A build has failed on a configuration with both conditions.
C9_Witness ==
    /\ pc = "build_error"
    /\ last.op = "build"
    /\ config.ends_when = EndsCondition
    /\ config.starts_when = StartsCondition

\* C10: an input event contributes only to the group, and the emission, of
\* its own discriminant, and processing an event with discriminant d never
\* changes a live group at another discriminant.
C10_GroupIsolation ==
    pc \in {"running", "done"} =>
        /\ \A d \in DOMAIN reduce_merge_states :
             \A i \in reduce_merge_states[d].metadata :
                Discriminant(received[i].event, me.group_by) = d
        /\ \A n \in 1..Len(out) :
             Cardinality({Discriminant(received[i].event, me.group_by) :
                             i \in out[n].event.metadata}) = 1
        /\ last.op = "event" =>
             \A d \in (DOMAIN last.pre \cap DOMAIN reduce_merge_states) \ {LastD} :
                reduce_merge_states[d] = last.pre[d]

\* An event has been appended to its group while a group of another
\* discriminant stays live.
C10_Witness ==
    /\ last.op = "event"
    /\ LastD \in DOMAIN last.pre
    /\ LastD \in DOMAIN reduce_merge_states
    /\ reduce_merge_states[LastD].metadata = last.pre[LastD].metadata \cup {LastId}
    /\ \E d \in DOMAIN reduce_merge_states : d # LastD

----------------------------------------------------------------------------
\* C11: with an empty group_by every event has the same (empty)
\* discriminant: in every reachable state at most one group is live, and it
\* is the group of the empty discriminant.
C11_EmptyGroupByOneGroup ==
    config.group_by = <<>> =>
        /\ Cardinality(DOMAIN reduce_merge_states) <= 1
        /\ DOMAIN reduce_merge_states \subseteq {<<>>}

\* Witness: with an empty group_by, events of two different request_ids have
\* been reduced into the one live group.
C11_Witness ==
    /\ config.group_by = <<>>
    /\ \E d \in DOMAIN reduce_merge_states :
         \E i, j \in reduce_merge_states[d].metadata :
            /\ "request_id" \in DOMAIN FieldsOf(received[i].event)
            /\ "request_id" \in DOMAIN FieldsOf(received[j].event)
            /\ FieldsOf(received[i].event)["request_id"]
                 # FieldsOf(received[j].event)["request_id"]

\* What an event carries under request_id: its value, or "missing".
RequestIdOf(i) ==
    IF "request_id" \in DOMAIN FieldsOf(received[i].event)
    THEN FieldsOf(received[i].event)["request_id"].val
    ELSE "missing"

\* The live group of the events without request_id.
Fieldless == <<None>>

\* C12: under group_by = [request_id], the events without request_id are
\* grouped together and apart from the events that carry a value (every live
\* group and every emitted event is made of events that all lack the field or
\* all carry the same value), and an ends_when event without the field
\* terminates exactly the field-less group: one event is emitted, made of
\* that group and the ending event, and the other groups are left alone.
C12_MissingFieldGroupsTogether ==
    config.group_by = <<"request_id">> =>
        /\ \A d \in DOMAIN reduce_merge_states :
              Cardinality({RequestIdOf(i) : i \in reduce_merge_states[d].metadata}) = 1
        /\ \A n \in 1..Len(out) :
              Cardinality({RequestIdOf(i) : i \in out[n].event.metadata}) = 1
        /\ (EndsHere /\ RequestIdOf(LastId) = "missing") =>
              /\ Len(NewOut) >= 1
              /\ NewOut[1].by = "ends_when"
              /\ NewOut[1].event.metadata =
                    (IF Fieldless \in DOMAIN last.pre
                     THEN last.pre[Fieldless].metadata ELSE {}) \cup {LastId}
              /\ Fieldless \notin DOMAIN reduce_merge_states
              /\ \A n \in 2..Len(NewOut) : NewOut[n].by = "stale"
              /\ \A d \in DOMAIN last.pre \ {Fieldless} :
                    \/ d \in DOMAIN reduce_merge_states
                         /\ reduce_merge_states[d] = last.pre[d]
                    \/ \E n \in 2..Len(NewOut) :
                          NewOut[n].event = flush(last.pre[d])

\* Witness: an ends_when event without request_id ends the field-less group
\* of an earlier event while a group with a request_id stays live.
C12_Witness ==
    /\ config.group_by = <<"request_id">>
    /\ EndsHere
    /\ RequestIdOf(LastId) = "missing"
    /\ Fieldless \in DOMAIN last.pre
    /\ Len(NewOut) = 1
    /\ Cardinality(NewOut[1].event.metadata) = 2
    /\ DOMAIN reduce_merge_states # {}

----------------------------------------------------------------------------
\* Vocabulary of the merging properties.

SetMin(S) == CHOOSE x \in S : \A y \in S : x <= y

\* The events `ids` that carry the field k, and its values in arrival order.
Having(ids, k) == {i \in ids : k \in DOMAIN FieldsOf(received[i].event)}

RECURSIVE Ascending(_)
Ascending(S) ==
    IF S = {} THEN <<>> ELSE <<SetMin(S)>> \o Ascending(S \ {SetMin(S)})

Contributed(ids, k) ==
    LET order == Ascending(Having(ids, k))
    IN [n \in 1..Len(order) |-> FieldsOf(received[order[n]].event)[k]]

\* The field names of the events `ids`.
InputNames(ids) == UNION {DOMAIN FieldsOf(received[i].event) : i \in ids}

Configured(k) == k \in DOMAIN config.merge_strategies

\* The fields the default timestamp merger reduces: no strategy, and the
\* first value contributed is a timestamp.
Windowed(ids) ==
    {k \in InputNames(ids) :
        ~Configured(k) /\ Contributed(ids, k)[1].kind = "timestamp"}

\* C13 as stated: the field names of an emitted event are among the field
\* names of its contributing input events.
C13_AsStated ==
    \A n \in 1..Len(out) :
        DOMAIN FieldsOf(out[n].event) \subseteq InputNames(out[n].event.metadata)

\* C13: the field names of an emitted event are among the field names of its
\* contributing input events and the names "<k>_end" of the fields k that the
\* default timestamp merger reduced; no other name is invented.
C13_NamesFromInputsOrWindowEnd ==
    \A n \in 1..Len(out) :
        LET ids == out[n].event.metadata
        IN DOMAIN FieldsOf(out[n].event) \subseteq
                InputNames(ids) \cup {EndField(k) : k \in Windowed(ids)}

\* Witness: an event reduced from two inputs is emitted with ts_end, which
\* neither input carries.
C13_Witness ==
    \E n \in 1..Len(out) :
        /\ Cardinality(out[n].event.metadata) = 2
        /\ "ts_end" \in DOMAIN FieldsOf(out[n].event)
        /\ "ts_end" \notin InputNames(out[n].event.metadata)

\* The fields of the events `ids` whose contributed values are all timestamps.
TimestampFields(ids) ==
    {k \in InputNames(ids) :
        \A n \in 1..Len(Contributed(ids, k)) :
            Contributed(ids, k)[n].kind = "timestamp"}

\* C14: for a timestamp field without a configured strategy the emitted
\* event carries the first contributed timestamp under the field's name and
\* the last contributed timestamp under "<field>_end"; with a strategy
\* configured for the field no "<field>_end" is produced.
C14_TimestampFirstAndLast ==
    \A n \in 1..Len(out) :
        LET ids == out[n].event.metadata
            emitted == FieldsOf(out[n].event)
        IN \A k \in TimestampFields(ids) :
              LET values == Contributed(ids, k)
              IN IF Configured(k)
                 THEN EndField(k) \notin DOMAIN emitted
                 ELSE /\ k \in DOMAIN emitted
                      /\ emitted[k] = values[1]
                      /\ EndField(k) \in DOMAIN emitted
                      /\ emitted[EndField(k)] = values[Len(values)]

\* Witness: a group whose first timestamp is later than its last one is
\* emitted with ts the first and ts_end the last.
C14_Witness ==
    \E n \in 1..Len(out) :
        LET values == Contributed(out[n].event.metadata, "ts")
        IN /\ ~Configured("ts")
           /\ Len(values) = 2
           /\ values[1].val > values[2].val
           /\ FieldsOf(out[n].event)["ts"] = values[1]
           /\ FieldsOf(out[n].event)["ts_end"] = values[2]

\* The fields of the events `ids` whose contributed values are all integers.
IntegerFields(ids) ==
    {k \in InputNames(ids) :
        \A n \in 1..Len(Contributed(ids, k)) :
            Contributed(ids, k)[n].kind = "integer"}

RECURSIVE SumOf(_)
SumOf(values) ==
    IF values = <<>> THEN 0 ELSE Head(values).val + SumOf(Tail(values))

\* C15: for an integer field with no configured strategy, or with the
\* strategy sum, the emitted value is the integer sum of the values of all
\* contributing events (n events with x = 1 give x = n).
C15_IntegersAreSummed ==
    \A n \in 1..Len(out) :
        LET ids == out[n].event.metadata
            emitted == FieldsOf(out[n].event)
        IN \A k \in IntegerFields(ids) :
              (~Configured(k) \/ config.merge_strategies[k] = "sum") =>
                  /\ k \in DOMAIN emitted
                  /\ emitted[k] = Integer(SumOf(Contributed(ids, k)))

\* Witness: three events with counter = 1 are emitted as one event with
\* counter = 3.
C15_Witness ==
    \E n \in 1..Len(out) :
        LET values == Contributed(out[n].event.metadata, "counter")
        IN /\ Len(values) = 3
           /\ \A i \in 1..3 : values[i] = Integer(1)
           /\ FieldsOf(out[n].event)["counter"] = Integer(3)

\* The fields of the events `ids` whose first contributed value is a string.
StringFields(ids) ==
    {k \in InputNames(ids) : Contributed(ids, k)[1].kind = "bytes"}

\* C16: for a string field with no configured strategy the emitted value is
\* the value of the first event of the group that carried the field; later
\* values never change it.
C16_FirstStringWins ==
    \A n \in 1..Len(out) :
        LET ids == out[n].event.metadata
            emitted == FieldsOf(out[n].event)
        IN \A k \in StringFields(ids) :
              ~Configured(k) =>
                  /\ k \in DOMAIN emitted
                  /\ emitted[k] = Contributed(ids, k)[1]

\* Witness: a group whose events carry message "m1" and then "m2" is
\* emitted with message "m1".
C16_Witness ==
    \E n \in 1..Len(out) :
        LET values == Contributed(out[n].event.metadata, "message")
        IN /\ Len(values) >= 2
           /\ values[1] = Bytes("m1")
           /\ values[2] = Bytes("m2")
           /\ FieldsOf(out[n].event)["message"] = Bytes("m1")

\* The fields configured with the strategy `strat`.
ConfiguredAs(strat) ==
    {k \in DOMAIN config.merge_strategies : config.merge_strategies[k] = strat}

\* C17: for a field with the strategy array, the emitted value is an array
\* holding every value the contributing events carried for the field, each
\* as it was (an array value is one nested element), in arrival order.
C17_ArrayKeepsEveryValue ==
    \A n \in 1..Len(out) :
        LET ids == out[n].event.metadata
            emitted == FieldsOf(out[n].event)
        IN \A k \in ConfiguredAs("array") \cap InputNames(ids) :
              /\ k \in DOMAIN emitted
              /\ emitted[k] = Array(Contributed(ids, k))

\* Witness: a string, an integer and an array contributed to bar are emitted
\* as an array of three elements, the last one the nested array.
C17_Witness ==
    \E n \in 1..Len(out) :
        LET bar == FieldsOf(out[n].event)["bar"]
        IN /\ "bar" \in ConfiguredAs("array")
           /\ "bar" \in DOMAIN FieldsOf(out[n].event)
           /\ bar.kind = "array"
           /\ Len(bar.val) = 3
           /\ bar.val[1] = Bytes("first bar")
           /\ bar.val[2] = Integer(2)
           /\ bar.val[3] = Array(<<Integer(1), Integer(3)>>)

\* The last event was pushed onto a group that was live (the else branch).
Appended ==
    /\ last.op = "event"
    /\ ~EndsHere
    /\ ~StartsHere
    /\ LastD \in DOMAIN last.pre

\* The fields of the last event that the group's merger rejected.
Rejected ==
    {k \in DOMAIN FieldsOf(LastEvent) \cap DOMAIN last.pre[LastD].fields :
        ~merger_add(last.pre[LastD].fields[k], FieldsOf(LastEvent)[k]).ok}

\* The values of `values` of the kind `kind`, in order.
OfKind(values, kind) == SelectSeq(values, LAMBDA v : v.kind = kind)

RECURSIVE Joined(_)
Joined(values) ==
    IF Len(values) = 1 THEN values[1].val
    ELSE values[1].val \o " " \o Joined(Tail(values))

\* C18: when a merger rejects a value (a string for a max field, an integer
\* for a string concat field) only that contribution is dropped: the merger
\* keeps its state, the other fields of the event are merged, the event
\* joins the group and the group stays live; later valid values are still
\* accepted, so the emitted max is the greatest integer contributed and the
\* emitted concat joins the strings contributed.
C18_RejectedAddDropsOnlyThatValue ==
    /\ Appended =>
          /\ LastD \in DOMAIN reduce_merge_states
          /\ LastId \in reduce_merge_states[LastD].metadata
          /\ \A k \in DOMAIN last.pre[LastD].fields :
                LET before == last.pre[LastD].fields[k]
                    after == reduce_merge_states[LastD].fields[k]
                IN /\ k \in DOMAIN reduce_merge_states[LastD].fields
                   /\ k \in Rejected => after = before
                   /\ k \in DOMAIN FieldsOf(LastEvent) \ Rejected =>
                         after = merger_add(before, FieldsOf(LastEvent)[k]).m
    /\ \A n \in 1..Len(out) :
          LET ids == out[n].event.metadata
              emitted == FieldsOf(out[n].event)
          IN /\ \A k \in ConfiguredAs("max") \cap InputNames(ids) :
                   Contributed(ids, k)[1].kind = "integer" =>
                      emitted[k] = Integer(SetMax(
                          {Contributed(ids, k)[i].val :
                              i \in {j \in 1..Len(Contributed(ids, k)) :
                                        Contributed(ids, k)[j].kind = "integer"}}))
             /\ \A k \in ConfiguredAs("concat") \cap InputNames(ids) :
                   Contributed(ids, k)[1].kind = "bytes" =>
                      emitted[k] = Bytes(Joined(OfKind(Contributed(ids, k), "bytes")))

\* Witness: the events of test reduce_merge_strategies: baz = 2, "not number",
\* 3 under max and foo = "first foo", "second foo", 10 under concat are
\* emitted as baz = 3 and foo = "first foo second foo".
C18_Witness ==
    \E n \in 1..Len(out) :
        LET ids == out[n].event.metadata
            emitted == FieldsOf(out[n].event)
        IN /\ "baz" \in ConfiguredAs("max")
           /\ "foo" \in ConfiguredAs("concat")
           /\ Contributed(ids, "baz") = <<Integer(2), Bytes("not number"), Integer(3)>>
           /\ Contributed(ids, "foo") =
                 <<Bytes("first foo"), Bytes("second foo"), Integer(10)>>
           /\ emitted["baz"] = Integer(3)
           /\ emitted["foo"] = Bytes("first foo second foo")

\* The last event created its group (the else branch).
Created ==
    /\ last.op = "event"
    /\ ~EndsHere
    /\ ~StartsHere
    /\ LastD \notin DOMAIN last.pre

\* The fields of an event that the configured strategy refuses to seed.
Unseedable(e) ==
    {k \in DOMAIN FieldsOf(e) :
        /\ Configured(k)
        /\ get_value_merger(FieldsOf(e)[k], config.merge_strategies[k]) = Err}

\* The merger a value seeds for the field k.
Seed(k, v) ==
    IF Configured(k) THEN get_value_merger(v, config.merge_strategies[k])
    ELSE DefaultMerger(v)

\* C19: when the configured strategy rejects the value that would seed a
\* field, the field is left out of the group; the group is still created, or
\* updated, with the remaining fields of the event.  A later event carrying
\* the field finds no merger and seeds a fresh one under the same configured
\* strategy.
C19_RejectedSeedOmitsField ==
    /\ Created =>
          /\ LastD \in DOMAIN reduce_merge_states
          /\ reduce_merge_states[LastD].metadata = {LastId}
          /\ DOMAIN reduce_merge_states[LastD].fields =
                DOMAIN FieldsOf(LastEvent) \ Unseedable(LastEvent)
          /\ \A k \in DOMAIN reduce_merge_states[LastD].fields :
                reduce_merge_states[LastD].fields[k] = Seed(k, FieldsOf(LastEvent)[k])
    /\ Appended =>
          /\ LastD \in DOMAIN reduce_merge_states
          /\ DOMAIN reduce_merge_states[LastD].fields =
                DOMAIN last.pre[LastD].fields
                    \cup (DOMAIN FieldsOf(LastEvent) \ Unseedable(LastEvent))
          /\ \A k \in DOMAIN FieldsOf(LastEvent) \ DOMAIN last.pre[LastD].fields :
                k \notin Unseedable(LastEvent) =>
                    reduce_merge_states[LastD].fields[k] =
                        Seed(k, FieldsOf(LastEvent)[k])

\* Witness: under baz = max a group was created by an event with
\* baz = "not number", so it had no baz; the next event, with baz = 3, has
\* just seeded a fresh max merger, and the other fields were merged.
C19_Witness ==
    /\ Appended
    /\ "baz" \in ConfiguredAs("max")
    /\ Contributed(last.pre[LastD].metadata, "baz") = <<Bytes("not number")>>
    /\ "baz" \notin DOMAIN last.pre[LastD].fields
    /\ "foo" \in DOMAIN last.pre[LastD].fields
    /\ "baz" \in DOMAIN reduce_merge_states[LastD].fields
    /\ reduce_merge_states[LastD].fields["baz"] = [strategy |-> "max", v |-> Integer(3)]

\* C20: the strategy of a field of a group is fixed when the field is seeded
\* and does not change while the group lives: a field with a configured
\* strategy is always merged under it, and a field without one is merged
\* under the default of the type of the first value it received in the
\* group, whatever the types of the later values.
C20_StrategyFixedAtSeeding ==
    /\ Appended =>
          \A k \in DOMAIN last.pre[LastD].fields :
              /\ k \in DOMAIN reduce_merge_states[LastD].fields
              /\ reduce_merge_states[LastD].fields[k].strategy =
                    last.pre[LastD].fields[k].strategy
    /\ \A d \in DOMAIN reduce_merge_states :
          \A k \in DOMAIN reduce_merge_states[d].fields :
              reduce_merge_states[d].fields[k].strategy =
                 IF Configured(k)
                 THEN config.merge_strategies[k]
                 ELSE DefaultMerger(
                         Contributed(reduce_merge_states[d].metadata, k)[1]).strategy

\* Witness: baz has no configured strategy and was seeded by an integer; an
\* event with a string under baz has just been merged and baz is still
\* summed.
C20_Witness ==
    /\ Appended
    /\ ~Configured("baz")
    /\ "baz" \in DOMAIN last.pre[LastD].fields
    /\ last.pre[LastD].fields["baz"].strategy = "sum"
    /\ "baz" \in DOMAIN FieldsOf(LastEvent)
    /\ FieldsOf(LastEvent)["baz"].kind = "bytes"
    /\ reduce_merge_states[LastD].fields["baz"].strategy = "sum"

----------------------------------------------------------------------------
\* The emissions of NewOut pushed by a predicate, and by the stale sweep.
ByPredicate == {i \in 1..Len(NewOut) : NewOut[i].by \in {"starts_when", "ends_when"}}
BySweep == {i \in 1..Len(NewOut) : NewOut[i].by = "stale"}

\* C21: emissions reach downstream in the order their terminating step was
\* processed: a step only appends to what earlier steps have output, and
\* within one transform_one call the emission of the predicate comes before
\* every group the stale sweep of that call emits.
C21_EmissionOrder ==
    [][/\ Len(out') >= Len(out)
       /\ SubSeq(out', 1, Len(out)) = out
       /\ (last'.op = "event" =>
              \A i \in ByPredicate' : \A j \in BySweep' : i < j)]_vars

\* Witness: after an earlier emission, one transform_one call has emitted the
\* event of ends_when and then a group of the stale sweep.
C21_Witness ==
    /\ last.op = "event"
    /\ last.n_out >= 1
    /\ Len(NewOut) = 2
    /\ NewOut[1].by = "ends_when"
    /\ NewOut[2].by = "stale"

\* C22: a stale sweep ends every per-event decision, whichever branch was
\* taken: after an event has been processed no live group is expired, every
\* group that was expired when the event arrived has been emitted in that
\* iteration, and with expire_after = 0 the event itself has been emitted and
\* no group is left.
C22_SweepEndsEveryDecision ==
    last.op = "event" =>
        /\ \A d \in DOMAIN reduce_merge_states :
              ~stale(reduce_merge_states[d], now, me.expire_after)
        /\ \A d \in Expired(last.pre, now) :
              \E n \in 1..Len(NewOut) :
                  last.pre[d].metadata \subseteq NewOut[n].event.metadata
        /\ me.expire_after = 0 =>
              /\ reduce_merge_states = EmptyMap
              /\ \E n \in 1..Len(NewOut) : LastId \in NewOut[n].event.metadata

\* Witness: an event matching starts_when arrives while the group of another
\* request_id is already expired; that group is emitted by the sweep of the
\* same iteration.
C22_Witness ==
    /\ StartsHere
    /\ me.expire_after > 0
    /\ \E d \in Expired(last.pre, now) :
          /\ d # LastD
          /\ \E n \in BySweep : NewOut[n].event = flush(last.pre[d])

RECURSIVE CountIds(_)
CountIds(emitted) ==
    IF emitted = <<>> THEN 0
    ELSE Cardinality(Head(emitted).event.metadata) + CountIds(Tail(emitted))

\* The events that have reached an emission, and those held by live groups.
EmittedIds == UNION {out[n].event.metadata : n \in 1..Len(out)}
LiveIds == UNION {reduce_merge_states[d].metadata : d \in DOMAIN reduce_merge_states}

\* C23: a flushed group is gone.  Nothing that has been emitted is held by a
\* live group or emitted again, and an event whose discriminant has no live
\* group (or whose starts_when has just flushed it) creates a group made of
\* that event alone: its fields, metadata and stale_since are those of
\* ReduceState::new on the event.
C23_FlushedGroupIsGone ==
    /\ EmittedIds \cap LiveIds = {}
    /\ CountIds(out) = Cardinality(EmittedIds)
    /\ (last.op = "event" /\ (LastD \notin DOMAIN last.pre \/ StartsHere)
            /\ LastD \in DOMAIN reduce_merge_states) =>
          reduce_merge_states[LastD] =
              ReduceState_new(LastEvent, me.merge_strategies, now)

\* Witness: the group of a request_id was emitted, and a later event of the
\* same request_id has created a fresh group with counter = 1.
C23_Witness ==
    /\ last.op = "event"
    /\ LastD \notin DOMAIN last.pre
    /\ LastD \in DOMAIN reduce_merge_states
    /\ \E n \in 1..last.n_out : \E i \in out[n].event.metadata :
          Discriminant(received[i].event, me.group_by) = LastD
    /\ reduce_merge_states[LastD].fields["counter"].v = Integer(1)
    /\ reduce_merge_states[LastD].metadata = {LastId}

----------------------------------------------------------------------------
\* An event that contributes no field.
Bare(e) == DOMAIN FieldsOf(e) = {}

\* C24: an event with no fields, or whose top-level value is not a mapping,
\* creates a group (without fields) when none is live at its discriminant;
\* appended to a live group it merges its metadata and leaves every field
\* merger as it was.  Such a group is flushed like any other: a group of
\* such events only is emitted without fields, and the fields of any
\* emission are those of the other contributing events (counter is their
\* sum).
C24_EventWithoutFields ==
    /\ (last.op = "event" /\ Bare(LastEvent)) =>
          IF LastD \notin DOMAIN last.pre
          THEN /\ LastD \in DOMAIN reduce_merge_states
               /\ reduce_merge_states[LastD].fields = EmptyMap
               /\ reduce_merge_states[LastD].metadata = {LastId}
          ELSE IF LastD \in DOMAIN reduce_merge_states
          THEN /\ reduce_merge_states[LastD].fields = last.pre[LastD].fields
               /\ reduce_merge_states[LastD].metadata =
                     last.pre[LastD].metadata \cup {LastId}
          ELSE \E n \in BySweep :
                  /\ NewOut[n].event.value = flush(last.pre[LastD]).value
                  /\ NewOut[n].event.metadata = last.pre[LastD].metadata \cup {LastId}
    /\ \A n \in 1..Len(out) :
          LET ids == out[n].event.metadata
              emitted == FieldsOf(out[n].event)
          IN /\ DOMAIN emitted = InputNames(ids)
             /\ "counter" \in DOMAIN emitted =>
                   emitted["counter"] = Integer(SumOf(Contributed(ids, "counter")))

\* Witness: a group of an event with counter = 1, a non-mapping event and an
\* empty event is emitted with counter = 1.
C24_Witness ==
    \E n \in 1..Len(out) :
        LET ids == out[n].event.metadata
        IN /\ Cardinality(ids) = 3
           /\ \E i \in ids : received[i].event.value = Bytes("raw")
           /\ \E i \in ids : received[i].event.value = Object(EmptyMap)
           /\ "counter" \in DOMAIN FieldsOf(out[n].event)
           /\ FieldsOf(out[n].event)["counter"] = Integer(1)

----------------------------------------------------------------------------
\* C25: no event is lost or duplicated.  Every event received is held by
\* exactly one live group or carried by exactly one emitted event; once the
\* input has ended and the loop has exited every event received is carried
\* by exactly one emitted event; and every live group has at least one
\* contributing event.
C25_NoEventLostOrDuplicated ==
    /\ \A d \in DOMAIN reduce_merge_states : reduce_merge_states[d].metadata # {}
    /\ pc \in {"running", "done"} =>
          /\ EmittedIds \cup LiveIds = 1..Len(received)
          /\ EmittedIds \cap LiveIds = {}
          /\ CountIds(out) = Cardinality(EmittedIds)
    /\ pc = "done" =>
          /\ reduce_merge_states = EmptyMap
          /\ EmittedIds = 1..Len(received)
          /\ CountIds(out) = Len(received)

\* Witness: the loop has exited after three events, emitted as a group of
\* two and a group of one.
C25_Witness ==
    /\ pc = "done"
    /\ Len(received) = 3
    /\ Len(out) = 2
    /\ \E n \in 1..2 : Cardinality(out[n].event.metadata) = 2

----------------------------------------------------------------------------
\* The events `ids` that matched starts_when.
Starters(ids) ==
    {i \in ids : condition_check(StartsCondition, received[i].event)}

\* At most one starter, and it is the first contributor.
StartsFirst(ids) ==
    /\ Cardinality(Starters(ids)) <= 1
    /\ Starters(ids) # {} => Starters(ids) = {SetMin(ids)}

\* C26: with starts_when configured, every group, live or emitted and
\* whatever flushed it, holds at most one event that matched starts_when,
\* and if it holds one that event is its first contributor; the emitted x is
\* the sum over the group's events (inputs {begin, x=1}, {x=2}, {begin, x=10}
\* emit x = 3 first and leave a group with x = 10 pending until
\* end-of-stream).
C26_StartsOpensTheGroup ==
    config.starts_when.kind # "none" =>
        /\ \A d \in DOMAIN reduce_merge_states :
              StartsFirst(reduce_merge_states[d].metadata)
        /\ \A n \in 1..Len(out) :
              /\ StartsFirst(out[n].event.metadata)
              /\ FieldsOf(out[n].event)["x"] =
                    Integer(SumOf(Contributed(out[n].event.metadata, "x")))

\* Witness: the inputs {begin, x=1}, {x=2}, {begin, x=10} within one instant:
\* x = 3 was emitted by starts_when, and the end-of-stream has emitted the
\* pending group with x = 10.
C26_Witness ==
    /\ pc = "done"
    /\ Len(received) = 3
    /\ \A i \in 1..3 : received[i].at = 0
    /\ Len(out) = 2
    /\ out[1].by = "starts_when"
    /\ FieldsOf(out[1].event)["x"] = Integer(3)
    /\ out[1].event.metadata = {1, 2}
    /\ out[2].by = "end_of_stream"
    /\ FieldsOf(out[2].event)["x"] = Integer(10)
    /\ "begin" \in DOMAIN FieldsOf(out[2].event)

----------------------------------------------------------------------------
\* A sweep of `states` at the instant `at` followed at once by a second one:
\* the second emits nothing, records nothing and changes nothing.
SecondSweepIsEmpty(states, at) ==
    \A first \in flush_into(states, at, me.expire_after) :
        flush_into(first.states, at, me.expire_after) =
            {[states |-> first.states, output |-> <<>>, hooks |-> 0]}

\* C27: a flush tick that finds no expired group (the map may be empty, as
\* at the first, immediate tick) emits nothing, records no StaleEventFlushed
\* and leaves the map of groups as it was; and a second sweep at the same
\* instant right after a sweep emits nothing.
C27_IdleTickChangesNothing ==
    /\ [](pc = "running" => SecondSweepIsEmpty(reduce_merge_states, now))
    /\ [][(next_tick' # next_tick /\ Expired(reduce_merge_states, now) = {}) =>
             /\ out' = out
             /\ stale_flushed' = stale_flushed
             /\ reduce_merge_states' = reduce_merge_states]_vars

\* Witness: a tick has found a live group that is not expired and left it.
C27_Witness ==
    /\ last.op = "tick"
    /\ last.pre # EmptyMap
    /\ Expired(last.pre, now) = {}
    /\ NewOut = <<>>
    /\ reduce_merge_states = last.pre

====
